---- MODULE Spec2Model ----
(***************************************************************************)
(* The expression-detector pass of clang_delta (ExpressionDetector.cpp):   *)
(* candidate selection over a typed AST, the validity filter, the          *)
(* structural equality oracle, the per-statement caches and the emitted    *)
(* instrumentation.                                                        *)
(***************************************************************************)
EXTENDS Integers, Sequences, FiniteSets, TLC

(***************************************************************************)
(* Bounds of the model.                                                    *)
(***************************************************************************)
\* largest requested ordinal (TransformationCounter)
MaxCounter == 5
\* executions of the instrumented statement that are followed
MaxExecs == 4
\* nesting depth of the expressions handed to the equality oracle
MaxDepth == 1

(***************************************************************************)
(* Names.  A name is a sequence of tokens; the reserved prefixes are one   *)
(* token each, followed by a decimal suffix token.                         *)
(***************************************************************************)
TmpVarNamePrefix == "__cvise_expr_tmp_"
PrintedVarNamePrefix == "__cvise_printed_"
CheckedVarNamePrefix == "__cvise_checked_"

NoName == <<>>

\* StringRef::startswith
startswith(Name, Prefix) == Len(Name) >= 1 /\ Name[1] = Prefix

\* std::to_string on the small numbers a function body can hold
Digits == <<"1", "2", "3", "4", "5", "6", "7", "8", "9">>
to_string(n) == Digits[n]
\* the numeric postfix of a name that starts with Prefix, 0 when it has none
NamePostfix(Name, Prefix) ==
  IF startswith(Name, Prefix) /\ Len(Name) = 2 /\ \E n \in DOMAIN Digits : Digits[n] = Name[2]
  THEN CHOOSE n \in DOMAIN Digits : Digits[n] = Name[2]
  ELSE 0

(***************************************************************************)
(* The AST.  An expression node carries its statement class, its opcode,   *)
(* the declaration it names, its literal value, its static type, whether   *)
(* evaluating the node itself has an effect, and its children.             *)
(***************************************************************************)
Node(k, o, d, v, t, s, ks) ==
  [kind |-> k, op |-> o, decl |-> d, val |-> v, ty |-> t, se |-> s, kids |-> ks]

\* a null Expr pointer (dyn_cast<Expr> of a child that is no expression)
NullExpr == Node("NULL", "", NoName, 0, "void", FALSE, <<>>)

IncDecOps == {"PostInc", "PostDec", "PreInc", "PreDec"}
AssignOps == {"Assign", "AddAssign"}

Ref(d, t) == Node("DeclRefExpr", "", d, 0, t, FALSE, <<>>)
IntLit(v, t) == Node("IntegerLiteral", "", NoName, v, t, FALSE, <<>>)
FloatLit(v) == Node("FloatingLiteral", "", NoName, v, "double", FALSE, <<>>)
StrLit(v) == Node("StringLiteral", "", NoName, v, "char[]", FALSE, <<>>)
CharLit(v) == Node("CharacterLiteral", "", NoName, v, "int", FALSE, <<>>)
Paren(e) == Node("ParenExpr", "", NoName, 0, e.ty, FALSE, <<e>>)
ICast(e, t) == Node("ImplicitCastExpr", "", NoName, 0, t, FALSE, <<e>>)
CCast(e, t) == Node("CStyleCastExpr", "", NoName, 0, t, FALSE, <<e>>)
\* lvalue-to-rvalue conversion of a read
RV(e) == ICast(e, e.ty)
Un(o, e, t) == Node("UnaryOperator", o, NoName, 0, t, o \in IncDecOps, <<e>>)
Bin(o, l, r, t) ==
  Node(IF o = "AddAssign" THEN "CompoundAssignOperator" ELSE "BinaryOperator",
       o, NoName, 0, t, o \in AssignOps, <<l, r>>)
Sub(b, i, t) == Node("ArraySubscriptExpr", "", NoName, 0, t, FALSE, <<b, i>>)
Member(b, m, t) == Node("MemberExpr", "", m, 0, t, FALSE, <<b>>)
\* a call: the callee first, then the arguments; pure = declared without effects
Call(f, args, t, pure) == Node("CallExpr", "", NoName, 0, t, ~pure, <<f>> \o args)
Cond(c, a, b, t) == Node("ConditionalOperator", "", NoName, 0, t, FALSE, <<c, a, b>>)

ExprKinds ==
  {"DeclRefExpr", "IntegerLiteral", "FloatingLiteral", "StringLiteral",
   "CharacterLiteral", "ParenExpr", "ImplicitCastExpr", "CStyleCastExpr",
   "UnaryOperator", "BinaryOperator", "CompoundAssignOperator",
   "ArraySubscriptExpr", "MemberExpr", "CallExpr", "ConditionalOperator"}

\* Type::isIntegerType / Type::isFloatingType on the types of the model
\* complete enumeration types: integer types that are no BuiltinType
EnumTypes == {"enum E"}
IntegerTypes ==
  {"int", "unsigned int", "long", "unsigned long", "_Bool", "char", "__int128"}
    \cup EnumTypes
FloatingTypes == {"float", "double", "long double"}
isIntegerType(t) == t \in IntegerTypes
isFloatingType(t) == t \in FloatingTypes
\* APInt::getBitWidth of an integer literal of type t
BitWidth(t) == IF t \in {"long", "unsigned long"} THEN 64 ELSE 32

\* Expr::HasSideEffects: the node or any of its children has an effect
RECURSIVE HasSideEffects(_)
HasSideEffects(e) ==
  e.se \/ \E i \in DOMAIN e.kids : HasSideEffects(e.kids[i])

\* Expr::IgnoreParenImpCasts and Expr::IgnoreParenCasts on a tree
RECURSIVE IgnoreParenImpCasts(_)
IgnoreParenImpCasts(e) ==
  IF e.kind \in {"ParenExpr", "ImplicitCastExpr"}
  THEN IgnoreParenImpCasts(e.kids[1]) ELSE e

RECURSIVE IgnoreParenCasts(_)
IgnoreParenCasts(e) ==
  IF e.kind \in {"ParenExpr", "ImplicitCastExpr", "CStyleCastExpr"}
  THEN IgnoreParenCasts(e.kids[1]) ELSE e

(***************************************************************************)
(* ExpressionDetector::isIdenticalExpr                                     *)
(***************************************************************************)
\* the kind-specific payload comparison of the final switch
PayloadMatchesNoDefault(E1, E2) ==
  CASE E1.kind \in {"ArraySubscriptExpr", "CallExpr"} -> TRUE
    [] E1.kind = "CStyleCastExpr" -> E1.ty = E2.ty
    [] E1.kind = "MemberExpr" -> E1.decl = E2.decl
    [] E1.kind = "DeclRefExpr" -> E1.decl = E2.decl
    [] E1.kind \in {"CompoundAssignOperator", "BinaryOperator"} -> E1.op = E2.op
    [] E1.kind = "UnaryOperator" -> E1.op = E2.op
    [] E1.kind = "CharacterLiteral" -> E1.val = E2.val
    [] E1.kind = "StringLiteral" -> E1.val = E2.val
    [] E1.kind = "IntegerLiteral" ->
         BitWidth(E1.ty) = BitWidth(E2.ty) /\ E1.val = E2.val
    [] E1.kind = "FloatingLiteral" -> E1.val = E2.val
    [] OTHER -> TRUE

PayloadMatches(E1, E2) ==
  CASE E1.kind \in {"ArraySubscriptExpr", "CallExpr"} -> TRUE
    [] E1.kind = "CStyleCastExpr" -> E1.ty = E2.ty
    [] E1.kind = "MemberExpr" -> E1.decl = E2.decl
    [] E1.kind = "DeclRefExpr" -> E1.decl = E2.decl
    [] E1.kind \in {"CompoundAssignOperator", "BinaryOperator"} -> E1.op = E2.op
    [] E1.kind = "UnaryOperator" -> E1.op = E2.op
    [] E1.kind = "CharacterLiteral" -> E1.val = E2.val
    [] E1.kind = "StringLiteral" -> E1.val = E2.val
    [] E1.kind = "IntegerLiteral" ->
         BitWidth(E1.ty) = BitWidth(E2.ty) /\ E1.val = E2.val
    [] E1.kind = "FloatingLiteral" -> E1.val = E2.val
    [] OTHER -> FALSE

RECURSIVE isIdenticalExpr(_, _)
isIdenticalExpr(E1, E2) ==
  IF E1.kind = "NULL" \/ E2.kind = "NULL"
  THEN E1.kind = "NULL" /\ E2.kind = "NULL"
  ELSE LET S1 == IgnoreParenImpCasts(E1)
           S2 == IgnoreParenImpCasts(E2)
       IN /\ S1.kind = S2.kind
          /\ ~(HasSideEffects(S1) \/ HasSideEffects(S2))
          /\ \A i \in 1..(IF Len(S1.kids) < Len(S2.kids)
                          THEN Len(S1.kids) ELSE Len(S2.kids)) :
               isIdenticalExpr(S1.kids[i], S2.kids[i])
          /\ Len(S1.kids) = Len(S2.kids)
          /\ PayloadMatches(S1, S2)

(***************************************************************************)
(* Statements.  A statement has its class, the expressions it directly     *)
(* owns (kids), the variables it declares (decls: name and the index of    *)
(* the initializer in kids, 0 for none), its sub-statements (body) and     *)
(* whether its text comes from an included file.  An expression statement  *)
(* is the expression itself: its class is the class of kids[1].            *)
(***************************************************************************)
Stmt(c, ks, ds, b) == [class |-> c, kids |-> ks, decls |-> ds, body |-> b, inc |-> FALSE]
ExprStmt(e) == Stmt(e.kind, <<e>>, <<>>, <<>>)
DeclStmt1(n, e) == Stmt("DeclStmt", <<e>>, <<[name |-> n, init |-> 1]>>, <<>>)
DeclStmt2(n1, e1, n2, e2) ==
  Stmt("DeclStmt", <<e1, e2>>, <<[name |-> n1, init |-> 1], [name |-> n2, init |-> 2]>>, <<>>)
IfStmt(c, b) == Stmt("IfStmt", <<c>>, <<>>, b)
ForStmt(i, c, n, b) == Stmt("ForStmt", <<i, c, n>>, <<>>, b)
WhileStmt(c, b) == Stmt("WhileStmt", <<c>>, <<>>, b)
DoStmt(b, c) == Stmt("DoStmt", <<c>>, <<>>, b)
ReturnStmt(e) == Stmt("ReturnStmt", <<e>>, <<>>, <<>>)

\* top-level declarations of a translation unit
Include(file, main) ==
  [item |-> "include", name |-> file, def |-> FALSE, inc |-> ~main, body |-> <<>>]
Func(n, isDef, included, b) ==
  [item |-> "func", name |-> n, def |-> isDef, inc |-> included, body |-> b]

(***************************************************************************)
(* The programs the pass is run on.                                        *)
(*   int x, y, a[4];  double d;                                            *)
(***************************************************************************)
X == Ref(<<"x">>, "int")
Y == Ref(<<"y">>, "int")
D == Ref(<<"d">>, "double")
\* a[1]
A1 == Sub(ICast(Ref(<<"a">>, "int[4]"), "int *"), IntLit(1, "int"), "int")
PrintfRef == ICast(Ref(<<"printf">>, "int (const char *, ...)"), "int (*)(const char *, ...)")
AbortRef == ICast(Ref(<<"abort">>, "void (void)"), "void (*)(void)")

\* void f_sum(void) { x = a[1] + a[1];  x = x + a[1]; }
F_sum ==
  Func("f_sum", TRUE, FALSE,
    << ExprStmt(Bin("Assign", X, Bin("Add", RV(A1), RV(A1), "int"), "int")),
       ExprStmt(Bin("Assign", X, Bin("Add", RV(X), RV(A1), "int"), "int")) >>)

\* void f_ctrl(void) {
\*   for (x = 0; x < y; x++) y = x;
\*   while (x < y) x++;
\*   do x--; while (y);
\*   if (x) x = y;
\*   printf("%d", x);
\* }
F_ctrl ==
  Func("f_ctrl", TRUE, FALSE,
    << ForStmt(Bin("Assign", X, IntLit(0, "int"), "int"),
               Bin("LT", RV(X), RV(Y), "int"),
               Un("PostInc", X, "int"),
               << ExprStmt(Bin("Assign", Y, RV(X), "int")) >>),
       WhileStmt(Bin("LT", RV(X), RV(Y), "int"),
                 << ExprStmt(Un("PostInc", X, "int")) >>),
       DoStmt(<< ExprStmt(Un("PostDec", X, "int")) >>, RV(Y)),
       IfStmt(RV(X), << ExprStmt(Bin("Assign", X, RV(Y), "int")) >>),
       ExprStmt(Call(PrintfRef, << ICast(StrLit("%d"), "const char *"), RV(X) >>, "int", FALSE)) >>)

\* double f_misc(void) {
\*   y = *&x;
\*   (y) += x;
\*   double z = d;
\*   int u = x, v = y;
\*   return z;
\* }
F_misc ==
  Func("f_misc", TRUE, FALSE,
    << ExprStmt(Bin("Assign", Y, RV(Un("Deref", Un("AddrOf", X, "int *"), "int")), "int")),
       ExprStmt(Bin("AddAssign", Paren(Y), RV(X), "int")),
       DeclStmt1(<<"z">>, RV(D)),
       DeclStmt2(<<"u">>, RV(X), <<"v">>, RV(Y)),
       ReturnStmt(RV(Ref(<<"z">>, "double"))) >>)

\* enum E e;  __int128 w;
\* void f_wide(void) { x = e;  x = w; }
F_wide ==
  Func("f_wide", TRUE, FALSE,
    << ExprStmt(Bin("Assign", X, ICast(RV(Ref(<<"e">>, "enum E")), "int"), "int")),
       ExprStmt(Bin("Assign", X, ICast(RV(Ref(<<"w">>, "__int128")), "int"), "int")) >>)

\* a function defined in an included file:  void f_inc(void) { x = y; }
F_inc ==
  Func("f_inc", TRUE, TRUE, << ExprStmt(Bin("Assign", X, RV(Y), "int")) >>)

\* int printf(const char *format, ...);
PrintfProto == Func("printf", FALSE, FALSE, <<>>)

\* #include <stdio.h>
IncludeStdio == Include("stdio.h", TRUE)

TopLib == {IncludeStdio, PrintfProto, F_sum, F_ctrl, F_misc, F_wide, F_inc}

\* a translation unit: one or two top-level declarations
Programs == {<<t>> : t \in TopLib} \cup {<<s, t>> : s \in TopLib, t \in TopLib}

(***************************************************************************)
(* State of one run of the pass.                                           *)
(***************************************************************************)
VARIABLES
  prog,                  \* the translation unit handed over by the front end
  phase,                 \* "first": a fresh program; "rerun": the pass's own output
  cxx,                   \* TransformationManager::isCXXLangOpt()
  QueryInstanceOnly, DoReplacement, CheckReference, TransformationCounter,
  pc,                    \* "decls", "stmts" (inside a function body), "done"
  di,                    \* index of the top-level declaration handled next / now
  todo,                  \* the (CurrentStmt, Expr) visits left in the current function
  ValidInstanceNum, TheFunc, TheStmt, TheExpr,
  UniqueExprs, ProcessedExprs, InvalidExprsInUOBO, TmpVarsInStmt,
  HFInfo, TransError, edits,
  visited,               \* history: every VisitExpr call of this run and how it ended
  writes,                \* history: number of assignments to the latched triple
  E1, E2, Identical,     \* the oracle applied to a pair of expressions
  Str, InstanceNumber, ip, ControlVar, TmpVar, Execs, Fired
                         \* the emitted block, executed

walkVars ==
  <<prog, phase, cxx, QueryInstanceOnly, DoReplacement, CheckReference,
    TransformationCounter, pc, di, todo, ValidInstanceNum, TheFunc, TheStmt,
    TheExpr, UniqueExprs, ProcessedExprs, InvalidExprsInUOBO, TmpVarsInStmt,
    HFInfo, TransError, edits, visited, writes>>
oracleVars == <<E1, E2, Identical>>
execVars == <<Str, InstanceNumber, ip, ControlVar, TmpVar, Execs, Fired>>
vars == <<walkVars, oracleVars, execVars>>

NullFunc == 0
NullStmt == <<>>
NullExprPtr == [s |-> <<>>, p |-> <<>>]

(***************************************************************************)
(* Pointers.  A statement pointer is its path from the translation unit    *)
(* (top-level index, then indices into the bodies); an expression pointer  *)
(* is the statement that owns it and its path from there (index into       *)
(* kids, then child indices).                                              *)
(***************************************************************************)
RECURSIVE StmtAt(_, _)
StmtAt(body, sp) ==
  IF Len(sp) = 1 THEN body[sp[1]] ELSE StmtAt(body[sp[1]].body, Tail(sp))

RECURSIVE ExprAt(_, _)
ExprAt(e, p) == IF Len(p) = 0 THEN e ELSE ExprAt(e.kids[Head(p)], Tail(p))

StmtIn(P, S) == StmtAt(P[S[1]].body, Tail(S))
NodeIn(P, E) == ExprAt(StmtIn(P, E.s).kids[Head(E.p)], Tail(E.p))
StmtOf(S) == StmtIn(prog, S)
NodeOf(E) == NodeIn(prog, E)
Child(E, i) == [E EXCEPT !.p = @ \o <<i>>]

\* Expr::IgnoreParenImpCasts / IgnoreParenCasts, returning the pointer
RECURSIVE IgnoreParenImpCastsPtr(_)
IgnoreParenImpCastsPtr(E) ==
  IF NodeOf(E).kind \in {"ParenExpr", "ImplicitCastExpr"}
  THEN IgnoreParenImpCastsPtr(Child(E, 1)) ELSE E

RECURSIVE IgnoreParenCastsPtr(_)
IgnoreParenCastsPtr(E) ==
  IF NodeOf(E).kind \in {"ParenExpr", "ImplicitCastExpr", "CStyleCastExpr"}
  THEN IgnoreParenCastsPtr(Child(E, 1)) ELSE E

Range(sq) == {sq[i] : i \in 1..Len(sq)}

(***************************************************************************)
(* CommonStatementVisitor: the traversal of a function body.  Each         *)
(* statement is CurrentStmt while the expressions it owns are visited in   *)
(* pre-order; its sub-statements follow, each as its own CurrentStmt.      *)
(* A visit is the pair (CurrentStmt, Expr).                                *)
(***************************************************************************)
RECURSIVE VisitKids(_, _, _, _)
\* the expression e at path p of statement S, then its children
TraverseExpr(S, e, p) ==
  <<[s |-> S, e |-> [s |-> S, p |-> p]]>> \o VisitKids(S, e.kids, p, 1)

VisitKids(S, kids, p, i) ==
  IF i > Len(kids) THEN <<>>
  ELSE TraverseExpr(S, kids[i], p \o <<i>>) \o VisitKids(S, kids, p, i + 1)

RECURSIVE VisitBody(_, _, _)
\* the statement stmt with pointer S: its own expressions, then its sub-statements
TraverseStmt(stmt, S) ==
  VisitKids(S, stmt.kids, <<>>, 1) \o VisitBody(stmt.body, S, 1)

VisitBody(body, S, j) ==
  IF j > Len(body) THEN <<>>
  ELSE TraverseStmt(body[j], S \o <<j>>) \o VisitBody(body, S, j + 1)

\* StmtVisitor.TraverseDecl(FD) for the function at top-level index f
TraverseDecl(f) == VisitBody(prog[f].body, <<f>>, 1)

\* every expression pointer at or below statement S (RecursiveASTVisitor)
AllExprs(S) == {v.e : v \in Range(TraverseStmt(StmtOf(S), S))}

\* every statement pointer of function f
RECURSIVE StmtsBelow(_, _, _)
StmtsBelow(body, S, j) ==
  IF j > Len(body) THEN {}
  ELSE {S \o <<j>>} \cup StmtsBelow(body[j].body, S \o <<j>>, 1)
       \cup StmtsBelow(body, S, j + 1)

StmtsOfFunc(P, f) == StmtsBelow(P[f].body, <<f>>, 1)

(***************************************************************************)
(* The validity filter: ExpressionDetector::isValidExpr and its helpers.   *)
(***************************************************************************)
\* a test that knows the capture temporaries only
refToCaptureTmpOnly(Name) == startswith(Name, TmpVarNamePrefix)

refToTmpVar(Name) ==
  \/ startswith(Name, TmpVarNamePrefix)
  \/ startswith(Name, PrintedVarNamePrefix)
  \/ startswith(Name, CheckedVarNamePrefix)

\* a loop test that knows the for statement only
IsForStmtOnly(S) == StmtOf(S).class = "ForStmt"

\* S is a for, do or while statement
IsLoopStmt(S) == StmtOf(S).class \in {"ForStmt", "DoStmt", "WhileStmt"}

\* S is an expression and E is S itself
SelfReplacement(S, E) ==
  /\ StmtOf(S).class \in ExprKinds
  /\ IgnoreParenCastsPtr([s |-> S, p |-> <<1>>]) = E

\* S declares a reserved name, or is a group declaration
DeclStmtRejected(S) ==
  /\ StmtOf(S).class = "DeclStmt"
  /\ IF Len(StmtOf(S).decls) = 1
     THEN refToTmpVar(StmtOf(S).decls[1].name)
     ELSE TRUE

\* E is !__cvise_printed_N or !__cvise_checked_N
NegatedControlVar(E) ==
  /\ NodeOf(E).kind = "UnaryOperator"
  /\ NodeOf(E).op = "LNot"
  /\ LET SubE == IgnoreParenCasts(NodeOf(E).kids[1])
     IN /\ SubE.kind = "DeclRefExpr"
        /\ \/ startswith(SubE.decl, PrintedVarNamePrefix)
           \/ startswith(SubE.decl, CheckedVarNamePrefix)

\* E is  __cvise_expr_tmp_N != literal  and S is an if statement
GeneratedCheck(S, E) ==
  /\ NodeOf(E).kind \in {"BinaryOperator", "CompoundAssignOperator"}
  /\ NodeOf(E).op = "NE"
  /\ LET Lhs == IgnoreParenCasts(NodeOf(E).kids[1])
         Rhs == IgnoreParenCasts(NodeOf(E).kids[2])
     IN /\ Rhs.kind \in {"IntegerLiteral", "FloatingLiteral"}
        /\ Lhs.kind = "DeclRefExpr"
        /\ startswith(Lhs.decl, TmpVarNamePrefix)
        /\ StmtOf(S).class = "IfStmt"

\* CallExpr::getDirectCallee of an expression statement S, NoName if none
DirectCallee(S) ==
  LET c == IgnoreParenImpCasts(StmtOf(S).kids[1].kids[1])
  IN IF c.kind = "DeclRefExpr" THEN c.decl ELSE NoName

\* E names a reserved variable, or E is a name and S is a call of printf
TmpRefOrPrintfArg(S, E) ==
  /\ NodeOf(E).kind = "DeclRefExpr"
  /\ \/ refToTmpVar(NodeOf(E).decl)
     \/ /\ StmtOf(S).class = "CallExpr"
        /\ DirectCallee(S) = <<"printf">>

\* LocalUOBOVisitor::VisitUnaryOperator over S
VisitUnaryOperator(S) ==
  { IgnoreParenImpCastsPtr(Child(UO, 1)) :
      UO \in { N \in AllExprs(S) :
                 /\ NodeOf(N).kind = "UnaryOperator"
                 /\ (NodeOf(N).op \in IncDecOps \/ NodeOf(N).op = "AddrOf") } }

\* a collector that ignores assignments
VisitBinaryOperatorNone(S) == {}

\* LocalUOBOVisitor::VisitBinaryOperator over S
VisitBinaryOperator(S) ==
  { IgnoreParenImpCastsPtr(Child(BO, 1)) :
      BO \in { N \in AllExprs(S) :
                 /\ NodeOf(N).kind \in {"BinaryOperator", "CompoundAssignOperator"}
                 /\ NodeOf(N).op \in AssignOps } }

\* UOBOVisitor.TraverseStmt(S)
LocalUOBOVisitor(S) == VisitUnaryOperator(S) \cup VisitBinaryOperator(S)

\* LocalTmpVarCollector: the variables with the prefix that S refers to
LocalTmpVarCollector(S, Prefix) ==
  { NodeOf(DRE).decl :
      DRE \in { N \in AllExprs(S) :
                  /\ NodeOf(N).kind = "DeclRefExpr"
                  /\ startswith(NodeOf(N).decl, Prefix) } }

\* a filter without the comparison against the temporaries' initializers
hasIdenticalExprNever(TmpVars, E) == FALSE

hasIdenticalExpr(TmpVars, E) ==
  \E V \in TmpVars :
    /\ V \in DOMAIN ProcessedExprs
    /\ isIdenticalExpr(NodeOf(ProcessedExprs[V]), NodeOf(E))

\* the set the lookup in InvalidExprsInUOBO answers with (computed on a miss)
InvalidExprsOf(S) ==
  IF S \in DOMAIN InvalidExprsInUOBO THEN InvalidExprsInUOBO[S] ELSE LocalUOBOVisitor(S)

\* UniqueExprs[S], created empty on first use
UniqueExprsOf(S) ==
  IF S \in DOMAIN UniqueExprs THEN UniqueExprs[S] ELSE <<>>

\* a filter without the duplicate check
IsDuplicateNever(S, E) == FALSE

IsDuplicate(S, E) ==
  \E k \in 1..Len(UniqueExprsOf(S)) :
    isIdenticalExpr(NodeOf(UniqueExprsOf(S)[k]), NodeOf(E))

TmpVarsOf(S) ==
  IF S \in DOMAIN TmpVarsInStmt THEN TmpVarsInStmt[S]
  ELSE LocalTmpVarCollector(S, TmpVarNamePrefix)

\* where isValidExpr(S, E) returns: "pre" before the caches are consulted,
\* "invalid", "dup", "tmp" at the three cache checks, "ok" for return true
isValidExprStage(S, E) ==
  IF \/ IsLoopStmt(S)
     \/ SelfReplacement(S, E)
     \/ DeclStmtRejected(S)
     \/ NegatedControlVar(E)
     \/ GeneratedCheck(S, E)
     \/ TmpRefOrPrintfArg(S, E)
  THEN "pre"
  ELSE IF E \in InvalidExprsOf(S) THEN "invalid"
  ELSE IF IsDuplicate(S, E) THEN "dup"
  ELSE IF hasIdenticalExpr(TmpVarsOf(S), E) THEN "tmp"
  ELSE "ok"

\* the statement classes ExprDetectorStmtVisitor::VisitExpr lets through
CandidateKinds ==
  {"ArraySubscriptExpr", "BinaryOperator", "CallExpr", "DeclRefExpr",
   "MemberExpr", "UnaryOperator"}

\* how a call VisitExpr(E) with CurrentStmt = S ends
VisitExprStage(S, E) ==
  IF StmtOf(S).inc THEN "skip"
  ELSE IF NodeOf(E).kind \notin CandidateKinds THEN "skip"
  ELSE IF ~isIntegerType(NodeOf(E).ty) /\ ~isFloatingType(NodeOf(E).ty) THEN "skip"
  ELSE isValidExprStage(S, E)

MapPut(m, k, v) == [x \in DOMAIN m \cup {k} |-> IF x = k THEN v ELSE m[x]]

(***************************************************************************)
(* The rewrite: getFormatString and ExpressionDetector::doRewrite.         *)
(***************************************************************************)
\* the reference value of check mode, as the text given on the command line
ReferenceValue == "7"
\* the value a decimal literal denotes
LiteralValue(text) == CHOOSE n \in DOMAIN Digits : Digits[n] = text

getFormatString(BT) ==
  CASE BT \in {"_Bool", "unsigned char", "unsigned short", "unsigned int"} -> "u"
    [] BT \in {"char", "signed char", "short", "int"} -> "d"
    [] BT = "unsigned long" -> "lu"
    [] BT = "long" -> "ld"
    [] BT = "unsigned long long" -> "llu"
    [] BT = "long long" -> "lld"
    [] BT \in {"float", "double"} -> "f"
    [] BT = "long double" -> "Lf"
    [] OTHER -> ""

NullType == "null"
\* dyn_cast<BuiltinType>(Ty->getUnqualifiedDesugaredType())
BuiltinTypeOf(Ty) == IF Ty \in EnumTypes THEN NullType ELSE Ty

\* every string getFormatString can return
FormatStrings == {"u", "d", "lu", "ld", "llu", "lld", "f", "Lf", ""}

\* how the call getFormatString(BT) in doRewrite can end.  A null BT is
\* dereferenced: the process may crash or read any kind.  A kind without a
\* case reaches TransAssert(0 && "Bad BuiltinType!"), which stops the pass or,
\* compiled out, is followed by return "".
FormatOutcomes(BT) ==
  IF BT = NullType
  THEN {[end |-> "crash", fmt |-> ""], [end |-> "BadBuiltinType", fmt |-> ""]}
         \cup {[end |-> "return", fmt |-> f] : f \in FormatStrings}
  ELSE IF getFormatString(BT) = ""
  THEN {[end |-> "BadBuiltinType", fmt |-> ""], [end |-> "return", fmt |-> ""]}
  ELSE {[end |-> "return", fmt |-> getFormatString(BT)]}

\* the text doRewrite puts before the statement, line by line
\* an emitter that puts the increment inside the guarded block
EmitStrIncInsideBlock(Check, TyStr, FormatStr, TmpVarName, ExprStr, ControlVarName, FunctionName) ==
  << [form |-> "decl", ty |-> TyStr, name |-> TmpVarName, init |-> ExprStr],
     [form |-> "static", ty |-> "int", name |-> ControlVarName, init |-> 0],
     [form |-> "if_eq", name |-> ControlVarName, rhs |-> "__CVISE_INSTANCE_NUMBER"],
     IF Check
     THEN [form |-> "if_ne_call", name |-> TmpVarName, rhs |-> ReferenceValue,
           callee |-> FunctionName]
     ELSE [form |-> "call", callee |-> FunctionName,
           fmt |-> <<"cvise_value(%", FormatStr, ")\\n">>,
           arg |-> TmpVarName],
     [form |-> "pre_inc", name |-> ControlVarName],
     [form |-> "end_if"] >>

EmitStr(Check, TyStr, FormatStr, TmpVarName, ExprStr, ControlVarName, FunctionName) ==
  << [form |-> "decl", ty |-> TyStr, name |-> TmpVarName, init |-> ExprStr],
     [form |-> "static", ty |-> "int", name |-> ControlVarName, init |-> 0],
     [form |-> "if_eq", name |-> ControlVarName, rhs |-> "__CVISE_INSTANCE_NUMBER"],
     IF Check
     THEN [form |-> "if_ne_call", name |-> TmpVarName, rhs |-> ReferenceValue,
           callee |-> FunctionName]
     ELSE [form |-> "call", callee |-> FunctionName,
           fmt |-> <<"cvise_value(%", FormatStr, ")\\n">>,
           arg |-> TmpVarName],
     [form |-> "end_if"],
     [form |-> "pre_inc", name |-> ControlVarName] >>

\* Initialize: the function and header the emitted code needs
Initialize(Check) ==
  IF Check
  THEN [HeaderName |-> "stdlib.h", FunctionName |-> "abort",
        FunctionDeclStr |-> "void abort(void)",
        HasHeader |-> FALSE, HasFunction |-> FALSE, HeaderLoc |-> 0, FunctionLoc |-> 0]
  ELSE [HeaderName |-> "stdio.h", FunctionName |-> "printf",
        FunctionDeclStr |-> "int printf(const char *format, ...)",
        HasHeader |-> FALSE, HasFunction |-> FALSE, HeaderLoc |-> 0, FunctionLoc |-> 0]

ControlVarNamePrefix == IF CheckReference THEN CheckedVarNamePrefix ELSE PrintedVarNamePrefix

\* source locations are compared by top-level declaration
shouldAddFunctionDecl(Loc) ==
  /\ (~HFInfo.HasFunction \/ Loc < HFInfo.FunctionLoc)
  /\ (~HFInfo.HasHeader \/ Loc < HFInfo.HeaderLoc)

\* every name declared or referred to in function f
NamesInFunc(f) ==
  UNION { {StmtOf(T).decls[k].name : k \in 1..Len(StmtOf(T).decls)}
          \cup {NodeOf(N).decl : N \in {M \in AllExprs(T) : NodeOf(M).kind = "DeclRefExpr"}}
          : T \in StmtsOfFunc(prog, f) }

SetMax(S) == IF S = {} THEN 0 ELSE CHOOSE m \in S : \A n \in S : n <= m

\* TransNameQueryWrap::getMaxNamePostfix after TraverseDecl(f)
getMaxNamePostfix(f, Prefix) ==
  SetMax({NamePostfix(Name, Prefix) : Name \in NamesInFunc(f)})

FreshTmpVarName == <<TmpVarNamePrefix, to_string(getMaxNamePostfix(TheFunc, TmpVarNamePrefix) + 1)>>
FreshControlVarName ==
  <<ControlVarNamePrefix, to_string(getMaxNamePostfix(TheFunc, ControlVarNamePrefix) + 1)>>

\* the edits doRewrite requests
doRewrite(FormatStr) ==
  (IF shouldAddFunctionDecl(TheStmt[1])
   THEN << [op |-> "InsertText", loc |-> 0, text |-> <<HFInfo.FunctionDeclStr, ";\n">>] >>
   ELSE << >>)
  \o << [op |-> "addStringBeforeStmtAndReplaceExpr",
         stmt |-> TheStmt,
         str |-> EmitStr(CheckReference, NodeOf(TheExpr).ty, FormatStr, FreshTmpVarName,
                         NodeOf(TheExpr), FreshControlVarName, HFInfo.FunctionName),
         expr |-> TheExpr,
         name |-> FreshTmpVarName,
         paren |-> StmtOf(TheStmt).class # "DeclStmt"] >>

(***************************************************************************)
(* The walk over the translation unit.                                     *)
(***************************************************************************)
IdleOracle == E1 = NullExpr /\ E2 = NullExpr /\ Identical = "none"
IdleExec ==
  /\ Str = <<>> /\ InstanceNumber = 0 /\ ip = 0 /\ ControlVar = 0
  /\ TmpVar = 0 /\ Execs = 0 /\ Fired = <<>>

Init ==
  /\ prog \in Programs
  /\ phase = "first"
  /\ cxx \in BOOLEAN
  /\ QueryInstanceOnly \in BOOLEAN
  /\ DoReplacement \in BOOLEAN
  /\ CheckReference \in BOOLEAN
  /\ TransformationCounter \in 1..MaxCounter
  /\ pc = "decls" /\ di = 1 /\ todo = <<>>
  /\ ValidInstanceNum = 0
  /\ TheFunc = NullFunc /\ TheStmt = NullStmt /\ TheExpr = NullExprPtr
  /\ UniqueExprs = <<>> /\ ProcessedExprs = <<>>
  /\ InvalidExprsInUOBO = <<>> /\ TmpVarsInStmt = <<>>
  /\ HFInfo = Initialize(CheckReference)
  /\ TransError = "None" /\ edits = <<>>
  /\ visited = <<>> /\ writes = 0
  /\ IdleOracle /\ IdleExec

\* IncludesPPCallbacks::InclusionDirective
InclusionDirective ==
  /\ pc = "decls" /\ di <= Len(prog) /\ prog[di].item = "include"
  /\ HFInfo' = IF ~prog[di].inc /\ ~HFInfo.HasHeader /\ prog[di].name = HFInfo.HeaderName
               THEN [HFInfo EXCEPT !.HasHeader = TRUE, !.HeaderLoc = di]
               ELSE HFInfo
  /\ di' = di + 1
  /\ UNCHANGED <<prog, phase, cxx, QueryInstanceOnly, DoReplacement, CheckReference,
                 TransformationCounter, pc, todo, ValidInstanceNum, TheFunc, TheStmt,
                 TheExpr, UniqueExprs, ProcessedExprs, InvalidExprsInUOBO,
                 TmpVarsInStmt, TransError, edits, visited, writes>>
  /\ UNCHANGED <<oracleVars, execVars>>

\* HandleTopLevelDecl on a C++ program
HandleTopLevelDeclCXX ==
  /\ pc = "decls" /\ di <= Len(prog) /\ prog[di].item = "func"
  /\ cxx
  /\ ValidInstanceNum' = 0
  /\ di' = di + 1
  /\ UNCHANGED <<prog, phase, cxx, QueryInstanceOnly, DoReplacement, CheckReference,
                 TransformationCounter, pc, todo, TheFunc, TheStmt,
                 TheExpr, UniqueExprs, ProcessedExprs, InvalidExprsInUOBO,
                 TmpVarsInStmt, HFInfo, TransError, edits, visited, writes>>
  /\ UNCHANGED <<oracleVars, execVars>>

\* the first lines of VisitFunctionDecl: remember a declaration of the function
NoteFunction(f) ==
  IF ~HFInfo.HasFunction /\ prog[f].name = HFInfo.FunctionName
  THEN [HFInfo EXCEPT !.HasFunction = TRUE, !.FunctionLoc = f]
  ELSE HFInfo

\* the temporaries ExprDetectorTempVarVisitor hands to addOneTempVar
TempVarDecls(f) ==
  UNION { { [name |-> StmtOf(T).decls[k].name,
             e |-> IgnoreParenImpCastsPtr([s |-> T, p |-> <<StmtOf(T).decls[k].init>>])] :
            k \in { j \in 1..Len(StmtOf(T).decls) :
                      /\ startswith(StmtOf(T).decls[j].name, TmpVarNamePrefix)
                      /\ StmtOf(T).decls[j].init # 0 } }
          : T \in { U \in StmtsOfFunc(prog, f) : StmtOf(U).class = "DeclStmt" } }

addOneTempVar(PE, f) ==
  [V \in DOMAIN PE \cup {t.name : t \in TempVarDecls(f)} |->
     IF \E t \in TempVarDecls(f) : t.name = V
     THEN (CHOOSE t \in TempVarDecls(f) : t.name = V).e
     ELSE PE[V]]

\* HandleTopLevelDecl -> VisitFunctionDecl on a declaration that is not traversed
VisitFunctionDeclSkipped ==
  /\ pc = "decls" /\ di <= Len(prog) /\ prog[di].item = "func"
  /\ ~cxx
  /\ prog[di].inc \/ ~prog[di].def
  /\ HFInfo' = NoteFunction(di)
  /\ di' = di + 1
  /\ UNCHANGED <<prog, phase, cxx, QueryInstanceOnly, DoReplacement, CheckReference,
                 TransformationCounter, pc, todo, ValidInstanceNum, TheFunc, TheStmt,
                 TheExpr, UniqueExprs, ProcessedExprs, InvalidExprsInUOBO,
                 TmpVarsInStmt, TransError, edits, visited, writes>>
  /\ UNCHANGED <<oracleVars, execVars>>

\* HandleTopLevelDecl -> VisitFunctionDecl on a definition of the main file
VisitFunctionDecl ==
  /\ pc = "decls" /\ di <= Len(prog) /\ prog[di].item = "func"
  /\ ~cxx
  /\ ~(prog[di].inc \/ ~prog[di].def)
  /\ HFInfo' = NoteFunction(di)
  /\ ProcessedExprs' = addOneTempVar(ProcessedExprs, di)
  /\ todo' = TraverseDecl(di)
  /\ pc' = "stmts"
  /\ UNCHANGED <<prog, phase, cxx, QueryInstanceOnly, DoReplacement, CheckReference,
                 TransformationCounter, di, ValidInstanceNum, TheFunc, TheStmt,
                 TheExpr, UniqueExprs, InvalidExprsInUOBO,
                 TmpVarsInStmt, TransError, edits, visited, writes>>
  /\ UNCHANGED <<oracleVars, execVars>>

\* the counter has gone past the requested instance (a latch that keeps firing)
ReachedOrPassedInstance(num) == num >= TransformationCounter

\* ValidInstanceNum == TransformationCounter, tested right after the increment
ReachedInstance(num) == num = TransformationCounter

\* ExprDetectorStmtVisitor::VisitExpr, isValidExpr included
VisitExpr ==
  /\ pc = "stmts" /\ Len(todo) > 0
  /\ \E S \in {Head(todo).s}, E \in {Head(todo).e} :
     \E stage \in {VisitExprStage(S, E)} :
     \E num \in {IF stage = "ok" THEN ValidInstanceNum + 1 ELSE ValidInstanceNum} :
     \E latch \in {stage = "ok" /\ ReachedInstance(num)} :
        /\ InvalidExprsInUOBO' =
             IF stage \in {"invalid", "dup", "tmp", "ok"}
             THEN MapPut(InvalidExprsInUOBO, S, InvalidExprsOf(S))
             ELSE InvalidExprsInUOBO
        /\ UniqueExprs' =
             IF stage \in {"dup", "tmp", "ok"}
             THEN MapPut(UniqueExprs, S,
                         IF stage = "dup" THEN UniqueExprsOf(S)
                         ELSE Append(UniqueExprsOf(S), E))
             ELSE UniqueExprs
        /\ TmpVarsInStmt' =
             IF stage \in {"tmp", "ok"}
             THEN MapPut(TmpVarsInStmt, S, TmpVarsOf(S))
             ELSE TmpVarsInStmt
        /\ ValidInstanceNum' = num
        /\ TheFunc' = IF latch THEN di ELSE TheFunc
        /\ TheStmt' = IF latch THEN S ELSE TheStmt
        /\ TheExpr' = IF latch THEN E ELSE TheExpr
        /\ writes' = IF latch THEN writes + 1 ELSE writes
        /\ visited' = Append(visited, [f |-> di, s |-> S, e |-> E, stage |-> stage, num |-> num])
  /\ todo' = Tail(todo)
  /\ UNCHANGED <<prog, phase, cxx, QueryInstanceOnly, DoReplacement, CheckReference,
                 TransformationCounter, pc, di, ProcessedExprs, HFInfo, TransError, edits>>
  /\ UNCHANGED <<oracleVars, execVars>>

\* an end of VisitFunctionDecl that clears nothing
FinishFunctionDeclNoClear ==
  /\ pc = "stmts" /\ Len(todo) = 0
  /\ di' = di + 1
  /\ pc' = "decls"
  /\ UNCHANGED <<prog, phase, cxx, QueryInstanceOnly, DoReplacement, CheckReference,
                 TransformationCounter, todo, ValidInstanceNum, TheFunc, TheStmt,
                 TheExpr, UniqueExprs, ProcessedExprs, InvalidExprsInUOBO,
                 TmpVarsInStmt, HFInfo, TransError, edits, visited, writes>>
  /\ UNCHANGED <<oracleVars, execVars>>

\* the end of VisitFunctionDecl, after the statement traversal
FinishFunctionDecl ==
  /\ pc = "stmts" /\ Len(todo) = 0
  /\ UniqueExprs' = <<>>
  /\ ProcessedExprs' = <<>>
  /\ di' = di + 1
  /\ pc' = "decls"
  /\ UNCHANGED <<prog, phase, cxx, QueryInstanceOnly, DoReplacement, CheckReference,
                 TransformationCounter, todo, ValidInstanceNum, TheFunc, TheStmt,
                 TheExpr, InvalidExprsInUOBO, TmpVarsInStmt, HFInfo, TransError,
                 edits, visited, writes>>
  /\ UNCHANGED <<oracleVars, execVars>>

\* the test is off by one: the ordinal right after the last candidate passes
MaxInstanceExceededOffByOne == TransformationCounter > ValidInstanceNum + 1

\* TransformationCounter > ValidInstanceNum
MaxInstanceExceeded == TransformationCounter > ValidInstanceNum

\* ExpressionDetector::HandleTranslationUnit
HandleTranslationUnit ==
  /\ pc = "decls" /\ di > Len(prog)
  /\ IF QueryInstanceOnly
     THEN /\ pc' = "done"
          /\ UNCHANGED <<TransError, edits>>
     ELSE IF MaxInstanceExceeded
     THEN /\ TransError' = "TransMaxInstanceError"
          /\ pc' = "done"
          /\ UNCHANGED edits
     ELSE IF TheFunc = NullFunc \/ TheStmt = NullStmt \/ TheExpr = NullExprPtr
     THEN /\ pc' = "assert"
          /\ UNCHANGED <<TransError, edits>>
     ELSE IF DoReplacement
     THEN /\ edits' = << [op |-> "replaceExpr", expr |-> TheExpr, text |-> "Replacement"] >>
          /\ pc' = "done"
          /\ UNCHANGED TransError
     ELSE IF CheckReference
     THEN /\ edits' = doRewrite("")
          /\ pc' = "done"
          /\ UNCHANGED TransError
     ELSE \E o \in FormatOutcomes(BuiltinTypeOf(NodeOf(TheExpr).ty)) :
            /\ IF o.end = "return"
               THEN edits' = doRewrite(o.fmt) /\ pc' = "done"
               ELSE edits' = edits /\ pc' = o.end
            /\ UNCHANGED TransError
  /\ UNCHANGED <<prog, phase, cxx, QueryInstanceOnly, DoReplacement, CheckReference,
                 TransformationCounter, di, todo, ValidInstanceNum, TheFunc, TheStmt,
                 TheExpr, UniqueExprs, ProcessedExprs, InvalidExprsInUOBO,
                 TmpVarsInStmt, HFInfo, visited, writes>>
  /\ UNCHANGED <<oracleVars, execVars>>

(***************************************************************************)
(* The next invocation: the outer loop applies the edits and the front     *)
(* end parses the rewritten file; the pass starts on it from scratch with  *)
(* the same options.                                                       *)
(***************************************************************************)
RECURSIVE ReplaceAt(_, _, _)
ReplaceAt(e, p, new) ==
  IF Len(p) = 0 THEN new ELSE [e EXCEPT !.kids[Head(p)] = ReplaceAt(@, Tail(p), new)]

RECURSIVE InsertBefore(_, _, _, _)
InsertBefore(body, sp, stmts, repl) ==
  IF Len(sp) = 1
  THEN SubSeq(body, 1, sp[1] - 1) \o stmts \o <<repl>> \o SubSeq(body, sp[1] + 1, Len(body))
  ELSE [body EXCEPT ![sp[1]].body = InsertBefore(@, Tail(sp), stmts, repl)]

\* a read of variable n of type t, converted as the operand type T asks

\* the callee of a call to the function named n
CalleeRef(n) == IF n = "abort" THEN AbortRef ELSE PrintfRef

\* the statements the front end parses from the emitted text
ParseStr(L, InitIsRead) ==
  << DeclStmt1(L[1].name, IF InitIsRead THEN RV(L[1].init) ELSE L[1].init),
     DeclStmt1(L[2].name, IntLit(L[2].init, "int")),
     IfStmt(Bin("EQ", RV(Ref(L[3].name, "int")), IntLit(0, "int"), "int"),
       << IF L[4].form = "if_ne_call"
          THEN IfStmt(Bin("NE", RV(Ref(L[4].name, L[1].ty)),
                          IF isFloatingType(L[1].ty)
                          THEN ICast(IntLit(LiteralValue(L[4].rhs), "int"), L[1].ty)
                          ELSE IntLit(LiteralValue(L[4].rhs), "int"),
                          "int"),
                      << ExprStmt(Call(CalleeRef(L[4].callee), <<>>, "void", FALSE)) >>)
          ELSE ExprStmt(Call(CalleeRef(L[4].callee),
                             << ICast(StrLit(L[4].fmt), "const char *"),
                                RV(Ref(L[4].arg, L[1].ty)) >>,
                             "int", FALSE)) >>),
     ExprStmt(Un("PreInc", Ref(L[6].name, "int"), "int")) >>

\* the translation unit after the edits of doRewrite
ApplyEdits(P, ed) ==
  LET r == ed[Len(ed)]
      S == r.stmt
      E == r.expr
      old == StmtIn(P, S)
      isRead == /\ Len(E.p) > 1
                /\ NodeIn(P, [E EXCEPT !.p = SubSeq(@, 1, Len(@) - 1)]).kind = "ImplicitCastExpr"
      tmp == IF r.paren THEN Paren(Ref(r.name, NodeIn(P, E).ty)) ELSE Ref(r.name, NodeIn(P, E).ty)
      new == IF isRead THEN tmp ELSE RV(tmp)
      repl == [old EXCEPT !.kids[E.p[1]] = ReplaceAt(@, Tail(E.p), new)]
      P1 == [P EXCEPT ![S[1]].body = InsertBefore(@, Tail(S), ParseStr(r.str, isRead), repl)]
  IN IF ed[1].op = "InsertText"
     THEN <<Func(HFInfo.FunctionName, FALSE, FALSE, <<>>)>> \o P1
     ELSE P1

Reparse ==
  /\ pc = "done" /\ phase = "first"
  /\ Len(edits) > 0 /\ ~DoReplacement
  /\ prog' = ApplyEdits(prog, edits)
  /\ phase' = "rerun"
  /\ pc' = "decls" /\ di' = 1 /\ todo' = <<>>
  /\ ValidInstanceNum' = 0
  /\ TheFunc' = NullFunc /\ TheStmt' = NullStmt /\ TheExpr' = NullExprPtr
  /\ UniqueExprs' = <<>> /\ ProcessedExprs' = <<>>
  /\ InvalidExprsInUOBO' = <<>> /\ TmpVarsInStmt' = <<>>
  /\ HFInfo' = Initialize(CheckReference)
  /\ TransError' = "None" /\ edits' = <<>>
  /\ visited' = <<>> /\ writes' = 0
  /\ UNCHANGED <<cxx, QueryInstanceOnly, DoReplacement, CheckReference, TransformationCounter>>
  /\ UNCHANGED <<oracleVars, execVars>>

Next ==
  \/ InclusionDirective
  \/ HandleTopLevelDeclCXX
  \/ VisitFunctionDeclSkipped
  \/ VisitFunctionDecl
  \/ VisitExpr
  \/ FinishFunctionDecl
  \/ HandleTranslationUnit
  \/ Reparse

Spec == Init /\ [][Next]_vars

(***************************************************************************)
(* The oracle on its own: isIdenticalExpr applied to a pair of             *)
(* expressions drawn from a pool.                                          *)
(***************************************************************************)
IdleWalk ==
  /\ prog = <<>> /\ phase = "none"
  /\ cxx = FALSE /\ QueryInstanceOnly = FALSE /\ DoReplacement = FALSE
  /\ CheckReference = FALSE /\ TransformationCounter = 1
  /\ pc = "idle" /\ di = 1 /\ todo = <<>>
  /\ ValidInstanceNum = 0
  /\ TheFunc = NullFunc /\ TheStmt = NullStmt /\ TheExpr = NullExprPtr
  /\ UniqueExprs = <<>> /\ ProcessedExprs = <<>>
  /\ InvalidExprsInUOBO = <<>> /\ TmpVarsInStmt = <<>>
  /\ HFInfo = Initialize(FALSE)
  /\ TransError = "None" /\ edits = <<>>
  /\ visited = <<>> /\ writes = 0

\* g(): a call with effects;  h(): a call of a function declared pure
CallG == Call(ICast(Ref(<<"g">>, "int (void)"), "int (*)(void)"), <<>>, "int", FALSE)
CallH == Call(ICast(Ref(<<"h">>, "int (void)"), "int (*)(void)"), <<>>, "int", TRUE)

Atoms ==
  {X, Y, IntLit(1, "int"), IntLit(1, "long"), IntLit(2, "int"), FloatLit(0),
   StrLit("s"), CharLit(65), CallG, CallH, Cond(X, Y, Y, "int")}
Operands == {X, IntLit(1, "int")}

Grow(S) ==
  S \cup {Paren(e) : e \in S} \cup {RV(e) : e \in S}
    \cup {CCast(e, "long") : e \in S}
    \cup {Un("Minus", e, "int") : e \in S}
    \cup {Un("PreInc", e, "int") : e \in S}
    \cup {Member(e, <<"m">>, "int") : e \in S}
    \cup {Bin("Add", e, b, "int") : e \in S, b \in Operands}
    \cup {Bin("AddAssign", e, b, "int") : e \in S, b \in Operands}
    \cup {Sub(e, b, "int") : e \in S, b \in Operands}
    \cup {Cond(e, b, b, "int") : e \in S, b \in Operands}

RECURSIVE Pool(_)
Pool(d) == IF d = 0 THEN Atoms ELSE Grow(Pool(d - 1))

InitOracle ==
  /\ IdleWalk /\ IdleExec
  /\ E1 \in Pool(MaxDepth) \cup {NullExpr}
  /\ E2 \in {E1} \cup Atoms \cup {NullExpr, Paren(E1)}
  /\ Identical = "none"

Compare ==
  /\ Identical = "none"
  /\ Identical' = IF isIdenticalExpr(E1, E2) THEN "equal" ELSE "different"
  /\ UNCHANGED <<E1, E2>>
  /\ UNCHANGED <<walkVars, execVars>>

NextOracle == Compare

SpecOracle == InitOracle /\ [][NextOracle]_vars

(***************************************************************************)
(* The emitted block at run time: the lines of EmitStr are executed in     *)
(* order each time control reaches the instrumented statement.             *)
(***************************************************************************)
\* values the captured expression may take
Values == {LiteralValue(ReferenceValue), LiteralValue(ReferenceValue) + 1}

InitExec ==
  /\ IdleWalk /\ IdleOracle
  /\ \E Check \in BOOLEAN :
       Str = EmitStr(Check, "int", getFormatString("int"),
                     <<TmpVarNamePrefix, to_string(1)>>, X,
                     <<IF Check THEN CheckedVarNamePrefix ELSE PrintedVarNamePrefix,
                       to_string(1)>>,
                     Initialize(Check).FunctionName)
  /\ InstanceNumber \in -1..MaxExecs
  /\ ip = 1
  /\ ControlVar = Str[2].init
  /\ TmpVar = 0
  /\ Execs = 0
  /\ Fired = <<>>

\* the line after the end_if that closes the if at line i
AfterEndIf(i) ==
  1 + CHOOSE j \in (i + 1)..Len(Str) :
        /\ Str[j].form = "end_if"
        /\ \A k \in (i + 1)..(j - 1) : Str[k].form # "end_if"

AtLine(form) == ip \in 1..Len(Str) /\ Str[ip].form = form

\* T tmp = E;
ExecDecl ==
  /\ AtLine("decl")
  /\ \E v \in Values : TmpVar' = v
  /\ ip' = ip + 1
  /\ UNCHANGED <<Str, InstanceNumber, ControlVar, Execs, Fired>>
  /\ UNCHANGED <<walkVars, oracleVars>>

\* static int ctl = 0;  (initialized once, before the first execution)
ExecStatic ==
  /\ AtLine("static")
  /\ ip' = ip + 1
  /\ UNCHANGED <<Str, InstanceNumber, ControlVar, TmpVar, Execs, Fired>>
  /\ UNCHANGED <<walkVars, oracleVars>>

\* if (ctl == __CVISE_INSTANCE_NUMBER) {
ExecIfEq ==
  /\ AtLine("if_eq")
  /\ ip' = IF ControlVar = InstanceNumber THEN ip + 1 ELSE AfterEndIf(ip)
  /\ UNCHANGED <<Str, InstanceNumber, ControlVar, TmpVar, Execs, Fired>>
  /\ UNCHANGED <<walkVars, oracleVars>>

\* printf("cvise_value(%d)\n", tmp);
ExecCall ==
  /\ AtLine("call")
  /\ Fired' = Append(Fired, Execs)
  /\ ip' = ip + 1
  /\ UNCHANGED <<Str, InstanceNumber, ControlVar, TmpVar, Execs>>
  /\ UNCHANGED <<walkVars, oracleVars>>

\* if (tmp != reference) abort();
ExecIfNeCall ==
  /\ AtLine("if_ne_call")
  /\ Fired' = Append(Fired, Execs)
  /\ ip' = IF TmpVar # LiteralValue(Str[ip].rhs) THEN 0 ELSE ip + 1
  /\ UNCHANGED <<Str, InstanceNumber, ControlVar, TmpVar, Execs>>
  /\ UNCHANGED <<walkVars, oracleVars>>

\* }
ExecEndIf ==
  /\ AtLine("end_if")
  /\ ip' = ip + 1
  /\ UNCHANGED <<Str, InstanceNumber, ControlVar, TmpVar, Execs, Fired>>
  /\ UNCHANGED <<walkVars, oracleVars>>

\* ++ctl;
ExecPreInc ==
  /\ AtLine("pre_inc")
  /\ ControlVar' = ControlVar + 1
  /\ ip' = ip + 1
  /\ UNCHANGED <<Str, InstanceNumber, TmpVar, Execs, Fired>>
  /\ UNCHANGED <<walkVars, oracleVars>>

\* the instrumented statement itself; control comes back to the block later
ExecStmt ==
  /\ ip = Len(Str) + 1
  /\ Execs < MaxExecs
  /\ Execs' = Execs + 1
  /\ ip' = 1
  /\ UNCHANGED <<Str, InstanceNumber, ControlVar, TmpVar, Fired>>
  /\ UNCHANGED <<walkVars, oracleVars>>

NextExec ==
  \/ ExecDecl
  \/ ExecStatic
  \/ ExecIfEq
  \/ ExecCall
  \/ ExecIfNeCall
  \/ ExecEndIf
  \/ ExecPreInc
  \/ ExecStmt

SpecExec == InitExec /\ [][NextExec]_vars

(***************************************************************************)
(* Properties of the walk (Spec).                                          *)
(***************************************************************************)
IsAccepted(v) == v.stage = "ok"
\* the accepted candidates of this run, in traversal order
Accepted == SelectSeq(visited, IsAccepted)
Ended == pc \in {"done", "assert"}

\* C1: the counter is the number of accepted candidates; the triple is
\* written at most once, is latched exactly when the requested ordinal has
\* been reached, is then the function, statement and expression of the
\* n-th accepted candidate and stays so; the non-null assertions of
\* HandleTranslationUnit never fail.
C1_LatchedTriple ==
  /\ ValidInstanceNum = Len(Accepted)
  /\ writes <= 1
  /\ (writes = 1) <=> (TransformationCounter <= ValidInstanceNum)
  /\ TransformationCounter <= ValidInstanceNum =>
       /\ TheFunc = Accepted[TransformationCounter].f
       /\ TheStmt = Accepted[TransformationCounter].s
       /\ TheExpr = Accepted[TransformationCounter].e
  /\ TransformationCounter > ValidInstanceNum =>
       /\ TheFunc = NullFunc /\ TheStmt = NullStmt /\ TheExpr = NullExprPtr
  /\ pc # "assert"

\* C1 witness: the run ended with the triple latched in the second
\* top-level declaration, after candidates of the first one were counted
\* and before further candidates were accepted.
C1_Witness ==
  /\ pc = "done" /\ phase = "first" /\ Len(edits) > 0
  /\ TheFunc = 2
  /\ \E k \in 1..Len(visited) : visited[k].f = 1 /\ visited[k].stage = "ok"
  /\ TransformationCounter < ValidInstanceNum

\* C2: a transformation run whose ordinal exceeds the number of accepted
\* candidates (always so for a C++ program, where the count is 0) ends
\* with TransMaxInstanceError and requests no edit.
C2_MaxInstance ==
  /\ cxx => ValidInstanceNum = 0
  /\ (Ended /\ ~QueryInstanceOnly /\ TransformationCounter > ValidInstanceNum) =>
       /\ pc = "done"
       /\ TransError = "TransMaxInstanceError"
       /\ edits = <<>>

\* C2 witness: a C program with candidates, asked for an ordinal past the
\* last one, has ended.
C2_Witness ==
  /\ pc = "done" /\ ~QueryInstanceOnly /\ ~cxx
  /\ ValidInstanceNum > 0
  /\ TransformationCounter = ValidInstanceNum + 1
  /\ TransError = "TransMaxInstanceError"


Wrappers == {"ParenExpr", "ImplicitCastExpr", "CStyleCastExpr"}
\* an occurrence proper: an expression node that is not a mere wrapper
IsOccurrence(k) == NodeOf(visited[k].e).kind \notin Wrappers
SameExpr(i, j) == isIdenticalExpr(NodeOf(visited[i].e), NodeOf(visited[j].e))

\* no two accepted candidates of one statement are structurally equal
PairwiseDistinct ==
  \A j \in 1..Len(visited) : visited[j].stage = "ok" =>
    \A i \in 1..(j - 1) :
      (visited[i].stage = "ok" /\ visited[i].s = visited[j].s) => ~SameExpr(i, j)

\* C3 as stated: besides PairwiseDistinct, an accepted candidate has no
\* structurally equal occurrence earlier in its statement (only the first
\* occurrence in traversal order is accepted).
C3_FirstOccurrenceOnly ==
  /\ PairwiseDistinct
  /\ \A j \in 1..Len(visited) : visited[j].stage = "ok" =>
       \A i \in 1..(j - 1) :
         (visited[i].s = visited[j].s /\ IsOccurrence(i)) => ~SameExpr(i, j)

\* C3 amended: no two accepted candidates of one statement are structurally
\* equal, and every structurally equal occurrence that precedes an accepted
\* candidate in its statement was rejected before the duplicate check (by
\* the kind and type test, by rules 1 to 8 or by the invalid-operand rule),
\* so the accepted one is the first that reached the duplicate check.
C3_FirstToReachDuplicateCheck ==
  /\ PairwiseDistinct
  /\ \A j \in 1..Len(visited) : visited[j].stage = "ok" =>
       \A i \in 1..(j - 1) :
         (visited[i].s = visited[j].s /\ IsOccurrence(i) /\ SameExpr(i, j)) =>
            visited[i].stage \in {"skip", "pre", "invalid"}

\* C3 witness: an accepted candidate is followed in its statement by a
\* structurally equal occurrence that the duplicate check rejected.
C3_Witness ==
  \E j \in 1..Len(visited) : \E i \in 1..(j - 1) :
    /\ visited[i].s = visited[j].s
    /\ visited[i].stage = "ok" /\ visited[j].stage = "dup"
    /\ SameExpr(i, j)

\* E is, parentheses and implicit casts stripped, the operand of a ++, --
\* or & or the left side of an assignment somewhere inside S
IsProtectedOperand(S, E) ==
  \E N \in AllExprs(S) :
    /\ \/ /\ NodeOf(N).kind = "UnaryOperator"
          /\ NodeOf(N).op \in {"PreInc", "PostInc", "PreDec", "PostDec", "AddrOf"}
       \/ /\ NodeOf(N).kind \in {"BinaryOperator", "CompoundAssignOperator"}
          /\ NodeOf(N).op \in {"Assign", "AddAssign"}
    /\ IgnoreParenImpCastsPtr(Child(N, 1)) = E

\* C4: no accepted candidate is the operand of an increment, decrement or
\* address-of, or the left side of an assignment, anywhere in its statement,
\* whether the statement's set was just computed or taken from the cache.
C4_NoProtectedOperand ==
  \A k \in 1..Len(visited) :
    visited[k].stage = "ok" => ~IsProtectedOperand(visited[k].s, visited[k].e)

\* C4 witness: in one statement an operand was rejected on the first
\* consultation of the set, another on a later one, and a candidate that
\* is no such operand was accepted.
C4_Witness ==
  \E i, j, k \in 1..Len(visited) :
    /\ i < j /\ visited[i].s = visited[j].s /\ visited[k].s = visited[i].s
    /\ visited[i].stage = "invalid" /\ visited[j].stage = "invalid"
    /\ visited[i].e # visited[j].e
    /\ visited[k].stage = "ok"

\* the counter before the k-th visit of the run
NumBefore(k) == IF k = 1 THEN 0 ELSE visited[k - 1].num

\* C5: while the current statement is a for, while or do statement no
\* expression is accepted and the counter does not move.
C5_NothingInLoopStmt ==
  \A k \in 1..Len(visited) :
    StmtOf(visited[k].s).class \in {"ForStmt", "WhileStmt", "DoStmt"} =>
      /\ visited[k].stage # "ok"
      /\ visited[k].num = NumBefore(k)

\* C5 witness: candidates-to-be were visited under a for, a while and a do
\* statement of one function, and a candidate of a loop body was accepted.
C5_Witness ==
  /\ \A c \in {"ForStmt", "WhileStmt", "DoStmt"} :
       \E k \in 1..Len(visited) :
         /\ StmtOf(visited[k].s).class = c
         /\ NodeOf(visited[k].e).kind \in CandidateKinds
  /\ \E k \in 1..Len(visited) :
       /\ Len(visited[k].s) > 2
       /\ visited[k].stage = "ok"

IsReservedName(Name) ==
  Name # NoName /\
  Name[1] \in {"__cvise_expr_tmp_", "__cvise_printed_", "__cvise_checked_"}
DeclaresReserved(S) ==
  /\ StmtOf(S).class = "DeclStmt"
  /\ \E d \in 1..Len(StmtOf(S).decls) : IsReservedName(StmtOf(S).decls[d].name)

\* C6: no accepted candidate is a reference to a variable with one of the
\* three reserved prefixes, and none is accepted while the current statement
\* is a declaration of such a variable.
C6_NoReservedName ==
  \A k \in 1..Len(visited) : visited[k].stage = "ok" =>
    /\ ~(NodeOf(visited[k].e).kind = "DeclRefExpr" /\ IsReservedName(NodeOf(visited[k].e).decl))
    /\ ~DeclaresReserved(visited[k].s)

\* C6 witness: on a run over instrumented code, a reference to a capture
\* temporary, a reference to a control variable and an expression inside
\* the declaration of a capture temporary were all visited and rejected.
C6_Witness ==
  /\ phase = "rerun"
  /\ \E k \in 1..Len(visited) :
       /\ NodeOf(visited[k].e).kind = "DeclRefExpr"
       /\ startswith(NodeOf(visited[k].e).decl, TmpVarNamePrefix)
       /\ visited[k].stage = "pre"
  /\ \E k \in 1..Len(visited) :
       /\ NodeOf(visited[k].e).kind = "DeclRefExpr"
       /\ startswith(NodeOf(visited[k].e).decl, PrintedVarNamePrefix)
       /\ visited[k].stage = "pre"
  /\ \E k \in 1..Len(visited) :
       /\ DeclaresReserved(visited[k].s)
       /\ NodeOf(visited[k].e).kind \in CandidateKinds \ {"DeclRefExpr"}
       /\ visited[k].stage = "pre"

\* the capture temporary t is declared by a statement that precedes S in
\* the block of S or in an enclosing block
VisibleAt(T, S) ==
  /\ Len(T) <= Len(S)
  /\ SubSeq(T, 1, Len(T) - 1) = SubSeq(S, 1, Len(T) - 1)
  /\ T[Len(T)] < S[Len(T)]
RefersTo(S, Name) ==
  \E N \in AllExprs(S) : NodeOf(N).kind = "DeclRefExpr" /\ NodeOf(N).decl = Name
FuncsVisited == {visited[k].f : k \in 1..Len(visited)}

\* C9 as stated: an occurrence identical to the initializer of a capture
\* temporary declared before and visible at its statement is rejected,
\* whether or not the statement refers to the temporary.
C9_RejectedWheneverVisible ==
  \A f \in FuncsVisited : \A Tmps \in {TempVarDecls(f)} :
    \A k \in 1..Len(visited) :
      (/\ visited[k].f = f
       /\ IsOccurrence(k)
       /\ \E t \in Tmps : /\ VisibleAt(t.e.s, visited[k].s)
                          /\ isIdenticalExpr(NodeOf(t.e), NodeOf(visited[k].e)))
      => visited[k].stage # "ok"

\* C9 amended: an occurrence identical to the initializer of a capture
\* temporary declared in the current function is rejected whenever its
\* statement itself refers to that temporary.
C9_RejectedWhenReferenced ==
  \A f \in FuncsVisited : \A Tmps \in {TempVarDecls(f)} :
    \A k \in 1..Len(visited) :
      (/\ visited[k].f = f
       /\ IsOccurrence(k)
       /\ \E t \in Tmps : /\ RefersTo(visited[k].s, t.name)
                          /\ isIdenticalExpr(NodeOf(t.e), NodeOf(visited[k].e)))
      => visited[k].stage # "ok"

\* C9 witness: in a statement that refers to a capture temporary, a
\* candidate that passed every earlier rule was rejected because it is
\* identical to the temporary's initializer.
C9_Witness ==
  \E k \in 1..Len(visited) :
    /\ visited[k].stage = "tmp"
    /\ \E t \in TempVarDecls(visited[k].f) :
         /\ RefersTo(visited[k].s, t.name)
         /\ VisibleAt(t.e.s, visited[k].s)
         /\ isIdenticalExpr(NodeOf(t.e), NodeOf(visited[k].e))

IsControlVarRef(e) ==
  /\ e.kind = "DeclRefExpr"
  /\ e.decl # NoName
  /\ e.decl[1] \in {"__cvise_printed_", "__cvise_checked_"}
\* ctl == __CVISE_INSTANCE_NUMBER, heading the guarded block
IsGuardComparison(S, e) ==
  /\ StmtOf(S).class = "IfStmt"
  /\ e.kind = "BinaryOperator" /\ e.op = "EQ"
  /\ IsControlVarRef(IgnoreParenImpCasts(e.kids[1]))
\* !ctl
IsControlNegation(e) ==
  /\ e.kind = "UnaryOperator" /\ e.op = "LNot"
  /\ IsControlVarRef(IgnoreParenImpCasts(e.kids[1]))
\* tmp != reference, heading the inner if of check mode
IsReferenceComparison(S, e) ==
  /\ StmtOf(S).class = "IfStmt"
  /\ e.kind = "BinaryOperator" /\ e.op = "NE"
  /\ IgnoreParenImpCasts(e.kids[1]).kind = "DeclRefExpr"
  /\ IgnoreParenImpCasts(e.kids[1]).decl[1] = "__cvise_expr_tmp_"

\* C10 as stated: on a run over the pass's own output no expression of the
\* guard code is accepted: not the comparison of the guard counter with the
\* fire-instance number, not a negated control variable, not the comparison
\* of the capture temporary with the reference literal.
C10_GuardCodeNotAccepted ==
  phase = "rerun" =>
    \A k \in 1..Len(visited) :
      (\/ IsGuardComparison(visited[k].s, NodeOf(visited[k].e))
       \/ IsControlNegation(NodeOf(visited[k].e))
       \/ IsReferenceComparison(visited[k].s, NodeOf(visited[k].e)))
      => visited[k].stage # "ok"

(***************************************************************************)
(* Properties of the oracle (SpecOracle).                                  *)
(***************************************************************************)
RuledKinds ==
  {"ArraySubscriptExpr", "CallExpr", "CStyleCastExpr", "MemberExpr",
   "DeclRefExpr", "CompoundAssignOperator", "BinaryOperator", "UnaryOperator",
   "CharacterLiteral", "StringLiteral", "IntegerLiteral", "FloatingLiteral"}
\* every node of e, parentheses and implicit casts stripped, is of a kind
\* the oracle has a payload rule for
RECURSIVE AllKindsRuled(_)
AllKindsRuled(e) ==
  LET s == IgnoreParenImpCasts(e)
  IN /\ s.kind \in RuledKinds
     /\ \A i \in 1..Len(s.kids) : AllKindsRuled(s.kids[i])
Reflexive == Identical # "none" /\ E2 = E1 /\ E1 # NullExpr

\* C7 as stated: comparing E with E answers equal exactly when E has no side
\* effects, whatever the kinds of E and of its children.
C7_ReflexiveOnAnyKind ==
  Reflexive => (Identical = "equal" <=> ~HasSideEffects(E1))

\* C7 amended: comparing E with E answers equal exactly when E has no side
\* effects and every node of E, parentheses and implicit casts stripped, is
\* of a kind with a payload rule; an expression of another kind, or with a
\* child of another kind, is not equal to itself.
C7_ReflexiveOnRuledKinds ==
  Reflexive => (Identical = "equal" <=> (~HasSideEffects(E1) /\ AllKindsRuled(E1)))

\* C7 witness: a side-effect-free expression with a child of a kind without
\* a payload rule was compared with itself and found different.
C7_Witness ==
  /\ Reflexive /\ Identical = "different"
  /\ ~HasSideEffects(E1)
  /\ IgnoreParenImpCasts(E1).kind \in RuledKinds
  /\ ~AllKindsRuled(E1)

(***************************************************************************)
(* Properties of the emitted block at run time (SpecExec).                 *)
(***************************************************************************)
\* C8: the guard counter starts at zero, is compared with the instance
\* number before the guarded block and incremented after it, so it equals
\* the number of previous executions at each comparison; the guarded call
\* or comparison runs at most once, on the execution whose number of
\* previous executions is the instance number, and does run on it.
C8_FiresOnceAtInstance ==
  /\ Str[2].form = "static" /\ Str[2].init = 0
  /\ Str[3].form = "if_eq"
  /\ Str[Len(Str) - 1].form = "end_if" /\ Str[Len(Str)].form = "pre_inc"
  /\ AtLine("if_eq") => ControlVar = Execs
  /\ Len(Fired) <= 1
  /\ \A k \in 1..Len(Fired) : Fired[k] = InstanceNumber
  /\ (InstanceNumber >= 0 /\ Execs > InstanceNumber) => Len(Fired) = 1

\* C8 witness: the block fired on an execution that was not the first and
\* was executed at least twice more without firing again.
C8_Witness ==
  /\ Len(Fired) = 1
  /\ InstanceNumber >= 1
  /\ Execs >= InstanceNumber + 2
  /\ AtLine("if_eq")

(***************************************************************************)
(* Properties of the caches (Spec).                                        *)
(***************************************************************************)
\* the statement visitor is about to traverse the body of function di:
\* the temporaries of di are registered, no expression of di was visited
AtFunctionStart ==
  /\ pc = "stmts"
  /\ \A k \in 1..Len(visited) : visited[k].f # di
\* the statements an earlier function put into a per-statement cache
StaleKeys(cache) == {S \in DOMAIN cache : S[1] < di}

\* C11 as stated: when the traversal of a function body begins, none of the
\* caches (unique-expression list, invalid-expression sets, registry of
\* temporaries, per-statement lists of referenced temporaries) holds an
\* entry created while an earlier function was traversed.
C11_AllCachesFresh ==
  AtFunctionStart =>
    /\ StaleKeys(UniqueExprs) = {}
    /\ StaleKeys(InvalidExprsInUOBO) = {}
    /\ StaleKeys(TmpVarsInStmt) = {}
    /\ \A V \in DOMAIN ProcessedExprs : ProcessedExprs[V].s[1] = di

\* C11 amended: when the traversal of a function body begins, the
\* unique-expression list is empty and the registry holds only temporaries
\* declared in that function; the invalid-expression sets and the lists of
\* referenced temporaries are never cleared: they hold an entry for every
\* statement of the run that reached them, those of earlier functions
\* included, and none yet for a statement of the function that begins.
C11_ClearedAtFunctionEnd ==
  /\ AtFunctionStart =>
       /\ DOMAIN UniqueExprs = {}
       /\ \A V \in DOMAIN ProcessedExprs : ProcessedExprs[V].s[1] = di
       /\ \A S \in DOMAIN InvalidExprsInUOBO \cup DOMAIN TmpVarsInStmt : S[1] < di
  /\ \A k \in 1..Len(visited) :
       /\ visited[k].stage \in {"invalid", "dup", "tmp", "ok"} =>
            visited[k].s \in DOMAIN InvalidExprsInUOBO
       /\ visited[k].stage \in {"tmp", "ok"} =>
            visited[k].s \in DOMAIN TmpVarsInStmt

\* C11 witness: the traversal of a function with capture temporaries
\* begins after an earlier function left entries in both caches that are
\* never cleared.
C11_Witness ==
  /\ AtFunctionStart
  /\ DOMAIN ProcessedExprs # {}
  /\ StaleKeys(InvalidExprsInUOBO) # {}
  /\ StaleKeys(TmpVarsInStmt) # {}

(***************************************************************************)
(* Properties of the format lookup (Spec).                                 *)
(***************************************************************************)
\* the conversion specifiers of printf that fit a value of type t after the
\* default argument promotions; none fits a 128-bit integer
MatchingSpecifiers(t) ==
  CASE t \in {"int", "char"} -> {"d"}
    [] t = "_Bool" -> {"d", "u"}
    [] t = "unsigned int" -> {"u"}
    [] t = "long" -> {"ld"}
    [] t = "unsigned long" -> {"lu"}
    [] t \in {"float", "double"} -> {"f"}
    [] t = "long double" -> {"Lf"}
    [] t \in EnumTypes -> {"d", "u"}
    [] OTHER -> {}
PrintRun == ~QueryInstanceOnly /\ ~DoReplacement /\ ~CheckReference

\* C12 as stated: in print mode the format lookup for the selected
\* expression never reaches the Bad BuiltinType assertion (nor fails
\* otherwise), and the specifier written into the reporting call is
\* non-empty and fits the expression's type.
C12_FormatDefined ==
  PrintRun =>
    /\ pc \notin {"BadBuiltinType", "crash"}
    /\ (pc = "done" /\ Len(edits) > 0) =>
         LET Str1 == edits[Len(edits)].str
         IN /\ Str1[4].fmt[2] # ""
            /\ Str1[4].fmt[2] \in MatchingSpecifiers(Str1[1].ty)

====
